---- MODULE Spec2Model ----
(***************************************************************************)
(* Service load resolution of `hab svc bulkload`                            *)
(* (components/hab/src/cli/hab/svc.rs): the Load / SharedLoad records, the  *)
(* loading of a service config file into a Load, the patch of a Load with   *)
(* the shared default config, and svc_loads_from_paths.                     *)
(***************************************************************************)
EXTENDS Naturals, Sequences, FiniteSets, TLC

(***************************************************************************)
(* Bounds                                                                   *)
(***************************************************************************)
\* the longest `paths` slice handed to svc_loads_from_paths
MaxPaths == 2
\* the longest chain of patch operations applied to one base specification
MaxPatches == 2

(***************************************************************************)
(* Fields of Load / SharedLoad and their values                             *)
(***************************************************************************)
\* the marker of an Option that is None / of a key a document does not hold
Absent == "<absent>"

DEFAULT_SVC_CONFIG_PATH == "/hab/sup/default/config/svc"
OTHER_SVC_CONFIG_PATH == "/etc/hab/svc.toml"

CHANNEL_IDENT_DEFAULT == "stable"
GROUP_DEFAULT == "default"
health_check_interval_default == "30"

\* Load.pkg_ident: no Option, no serde default
RequiredFields == {"pkg_ident"}
\* fields deserialized with #[serde(default)] or #[serde(default = "...")]
PlainFields ==
    {"force", "channel", "group", "strategy", "update_condition", "bind",
     "binding_mode", "health_check_interval"}
\* Option<_> fields (and the flattened RemoteSup)
OptionFields ==
    {"remote_sup", "bldr_url", "topology", "shutdown_timeout", "config_from"}
Fields == RequiredFields \cup PlainFields \cup OptionFields
\* keys no field deserializes from: the #[serde(skip)] field `application`,
\* and a misspelt key
UnknownKeys == {"application", "chanel"}
AllKeys == Fields \cup UnknownKeys

\* the value serde fills in for a key the document does not hold
BuiltIn ==
    [f \in Fields |->
        CASE f = "force" -> "false"
          [] f = "channel" -> CHANNEL_IDENT_DEFAULT
          [] f = "group" -> GROUP_DEFAULT
          [] f = "strategy" -> "none"
          [] f = "update_condition" -> "latest"
          [] f = "bind" -> "[]"
          [] f = "binding_mode" -> "strict"
          [] f = "health_check_interval" -> health_check_interval_default
          [] OTHER -> Absent]

\* two values a document may give each key; for a field with a built-in
\* constant the first one is that constant, written out explicitly
KeyValues ==
    [k \in AllKeys |->
        CASE k = "pkg_ident" -> <<"core/redis", "core/nginx">>
          [] k = "force" -> <<"false", "true">>
          [] k = "channel" -> <<CHANNEL_IDENT_DEFAULT, "unstable">>
          [] k = "group" -> <<GROUP_DEFAULT, "prod">>
          [] k = "strategy" -> <<"none", "rolling">>
          [] k = "update_condition" -> <<"latest", "track-channel">>
          [] k = "bind" -> <<"[]", "[db:pg.default]">>
          [] k = "binding_mode" -> <<"strict", "relaxed">>
          [] k = "health_check_interval" -> <<health_check_interval_default, "60">>
          [] k = "remote_sup" -> <<"10.0.0.1:9632", "10.0.0.2:9632">>
          [] k = "bldr_url" -> <<"https://bldr.habitat.sh", "https://bldr.example.com">>
          [] k = "topology" -> <<"standalone", "leader">>
          [] k = "shutdown_timeout" -> <<"10", "20">>
          [] k = "config_from" -> <<"/src/a", "/src/b">>
          [] OTHER -> <<"x", "y">>]

(***************************************************************************)
(* Documents: the content of a config file                                  *)
(***************************************************************************)
\* a document holding `ident` (or Absent) under pkg_ident and `v` (or Absent)
\* under one more key k
MkDoc(ident, k, v) ==
    [wellformed |-> TRUE,
     kv |-> [x \in AllKeys |->
                IF x = "pkg_ident" THEN ident ELSE IF x = k THEN v ELSE Absent]]

\* a file that does not parse as TOML
MalformedDoc == [wellformed |-> FALSE, kv |-> [x \in AllKeys |-> Absent]]

EmptyDoc == MkDoc(Absent, "pkg_ident", Absent)

DocKeys(doc) == {k \in AllKeys : doc.kv[k] # Absent}

\* the documents that vary key k, with package identity `ident` or none
DocsFor(k, ident) ==
    {MalformedDoc} \cup
    {MkDoc(i, k, v) : i \in {Absent, ident},
                      v \in {Absent, KeyValues[k][1], KeyValues[k][2]}}

(***************************************************************************)
(* Results                                                                  *)
(***************************************************************************)
NoLoad == [f \in Fields |-> Absent]
Ok(v) == [ok |-> TRUE, val |-> v, err |-> "none"]
Err(e) == [ok |-> FALSE, val |-> NoLoad, err |-> e]


(***************************************************************************)
(* configopt::from_toml_file::<Load> and                                    *)
(* ConfigOptLoad::from_default_config_files                                 *)
(***************************************************************************)
\* the Load a well-formed document with only known keys and a pkg_ident
\* deserializes to: a key the document holds gives the field its value, any
\* other field gets its serde default (None for an Option)
DeserializeLoad(doc) ==
    [f \in Fields |-> IF doc.kv[f] # Absent THEN doc.kv[f] ELSE BuiltIn[f]]

\* LoadDefects without deny_unknown_fields: an unknown key is ignored
LoadDefectsLenient(doc) ==
    IF doc.kv["pkg_ident"] = Absent THEN {"MissingRequiredField"} ELSE {}

\* what stops a document from deserializing to a Load: an unknown key
\* (deny_unknown_fields), no pkg_ident (not an Option, no serde default)
LoadDefects(doc) ==
    (IF DocKeys(doc) \cap UnknownKeys # {} THEN {"UnknownField"} ELSE {})
    \cup (IF doc.kv["pkg_ident"] = Absent THEN {"MissingRequiredField"} ELSE {})

\* the outcomes of configopt::from_toml_file(path) at type Load.  A document
\* with both defects fails with one of the two errors; which one is decided
\* by the derived Deserialize impl, so both are outcomes.
FromTomlFile(readable, doc) ==
    IF ~readable THEN {Err("FilesystemError")}
    ELSE IF ~doc.wellformed THEN {Err("MalformedDocument")}
    ELSE IF LoadDefects(doc) # {} THEN {Err(e) : e \in LoadDefects(doc)}
    ELSE {Ok(DeserializeLoad(doc))}

\* ConfigOptLoad: every field an Option; nothing is required and no default
\* is filled in
DeserializeConfigOptLoad(doc) == [f \in Fields |-> doc.kv[f]]

\* ConfigOptLoad::from_default_config_files(): the default config file
\* /hab/sup/default/config/svc.toml if it exists, else an empty ConfigOptLoad
FromDefaultConfigFiles(file) ==
    IF ~file.exists THEN Ok(NoLoad)
    ELSE IF ~file.doc.wellformed THEN Err("MalformedDocument")
    ELSE IF DocKeys(file.doc) \cap UnknownKeys # {} THEN Err("UnknownField")
    ELSE Ok(DeserializeConfigOptLoad(file.doc))

(***************************************************************************)
(* The patch of one load specification with another                         *)
(***************************************************************************)
Explicit(v) == [tag |-> "Explicit", val |-> v]
Defaulted(v) == [tag |-> "Defaulted", val |-> v]
Unset == [tag |-> "Unset", val |-> Absent]

\* PatchField with the overlay never adopted
PatchFieldKeepBase(b, o) == b

\* PatchField with an Explicit overlay field always adopted
PatchFieldTake(b, o) == IF o.tag = "Explicit" THEN Explicit(o.val) ELSE b

\* one field of patch(base, overlay): an Explicit base field stays; else an
\* Explicit overlay field is adopted; else the base field stays
PatchField(b, o) ==
    IF b.tag = "Explicit" THEN b
    ELSE IF o.tag = "Explicit" THEN Explicit(o.val)
    ELSE b

Patch(base, overlay) == [f \in Fields |-> PatchField(base[f], overlay[f])]

\* a Load as the base of a patch: its fields are plain values (u64, String,
\* bool, ...) with no record of where a value came from, so every value it
\* holds stands as given; only a None is open to the overlay
LoadAsBase(load) ==
    [f \in Fields |-> IF load[f] = Absent THEN Unset ELSE Explicit(load[f])]

\* a ConfigOptLoad as the overlay: Some(v) is a value the file gave
ConfigOptAsOverlay(c) ==
    [f \in Fields |-> IF c[f] = Absent THEN Unset ELSE Explicit(c[f])]

SpecValues(s) == [f \in Fields |-> s[f].val]

\* default_svc_load.clone().patch_for(&mut svc_load): the Load read from the
\* discovered file is the base, the shared default the overlay
PatchFor(default_svc_load_, svc_load) ==
    SpecValues(Patch(LoadAsBase(svc_load), ConfigOptAsOverlay(default_svc_load_)))

(***************************************************************************)
(* The filesystem and WalkDir                                               *)
(***************************************************************************)
File(name, slot) ==
    [kind |-> "file", name |-> name, slot |-> slot, readable |-> TRUE,
     children |-> <<>>]
UnreadableFile(name, slot) ==
    [kind |-> "file", name |-> name, slot |-> slot, readable |-> FALSE,
     children |-> <<>>]
Symlink(name) ==
    [kind |-> "symlink", name |-> name, slot |-> "none", readable |-> TRUE,
     children |-> <<>>]
Dir(name, children) ==
    [kind |-> "dir", name |-> name, slot |-> "none", readable |-> TRUE,
     children |-> children]
UnreadableDir(name) ==
    [kind |-> "dir", name |-> name, slot |-> "none", readable |-> FALSE,
     children |-> <<>>]
Missing(name) ==
    [kind |-> "missing", name |-> name, slot |-> "none", readable |-> FALSE,
     children |-> <<>>]

\* file names, as their characters
N_svc == <<"s", "v", "c">>
N_svc_toml == <<"s", "v", "c", ".", "t", "o", "m", "l">>
N_a_toml == <<"a", ".", "t", "o", "m", "l">>
N_b_toml == <<"b", ".", "t", "o", "m", "l">>
N_conf_toml == <<"c", "o", "n", "f", ".", "t", "o", "m", "l">>
N_link_toml == <<"l", "n", ".", "t", "o", "m", "l">>
N_dot_toml == <<".", "t", "o", "m", "l">>
N_c_TOML == <<"c", ".", "T", "O", "M", "L">>
N_notes_txt == <<"n", ".", "t", "x", "t">>
N_README == <<"R", "E", "A", "D", "M", "E">>
N_sub == <<"s", "u", "b">>
N_toml == <<"t", "o", "m", "l">>

\* Path::extension(): the part of the file name after its last dot; None
\* when the name has no dot, or its only dot is its first character
Extension(name) ==
    LET dots == {i \in 1..Len(name) : name[i] = "."}
        last == CHOOSE i \in dots : \A j \in dots : j <= i
    IN  IF dots = {} THEN [some |-> FALSE, ext |-> <<>>]
        ELSE IF last = 1 THEN [some |-> FALSE, ext |-> <<>>]
        ELSE [some |-> TRUE, ext |-> SubSeq(name, last + 1, Len(name))]

Entry(n, p) ==
    [err |-> FALSE, ftype |-> n.kind, name |-> n.name, path |-> p,
     slot |-> n.slot, readable |-> n.readable]
WalkErrItem(n, p) ==
    [err |-> TRUE, ftype |-> n.kind, name |-> n.name, path |-> p,
     slot |-> "none", readable |-> FALSE]

RECURSIVE WalkNode(_, _)
RECURSIVE WalkChildren(_, _, _)
\* the items WalkDir::new(path) yields, in order: the entry itself, then,
\* depth first, the entries under it; an error for a path that does not
\* exist and for a directory that cannot be read
WalkNode(n, dir) ==
    LET p == Append(dir, n.name) IN
    IF n.kind = "missing" THEN <<WalkErrItem(n, p)>>
    ELSE IF n.kind = "dir"
         THEN <<Entry(n, p)>> \o
              (IF n.readable THEN WalkChildren(n.children, p, 1)
                             ELSE <<WalkErrItem(n, p)>>)
         ELSE <<Entry(n, p)>>
WalkChildren(cs, p, i) ==
    IF i > Len(cs) THEN <<>>
    ELSE WalkNode(cs[i], p) \o WalkChildren(cs, p, i + 1)

WalkDir(node) == WalkNode(node, <<>>)

\* what a path may be on disk
DefaultRoots ==
    {Missing(N_svc),
     Dir(N_svc, <<File(N_b_toml, "b"), File(N_a_toml, "a")>>)}
OtherRoots ==
    {Missing(N_svc_toml),
     File(N_svc_toml, "a"),
     Dir(N_svc_toml,
         <<File(N_a_toml, "a"), File(N_notes_txt, "none"), File(N_README, "none"),
           Dir(N_sub, <<File(N_b_toml, "b")>>)>>),
     Dir(N_svc_toml, <<File(N_a_toml, "a"), UnreadableDir(N_sub)>>),
     Dir(N_svc_toml,
         <<Dir(N_conf_toml, <<File(N_b_toml, "b")>>), Symlink(N_link_toml),
           File(N_dot_toml, "none"), File(N_c_TOML, "none"), File(N_toml, "none")>>),
     Dir(N_svc_toml, <<UnreadableFile(N_b_toml, "b")>>)}

PathNames == {DEFAULT_SVC_CONFIG_PATH, OTHER_SVC_CONFIG_PATH}

\* path.exists()
Exists(fs_, path) == fs_[path].kind # "missing"


(***************************************************************************)
(* State                                                                    *)
(***************************************************************************)
VARIABLES
    paths,            \* the argument of svc_loads_from_paths
    fs,               \* what each path is on disk
    content,          \* the documents held by the service config files
    defaultFile,      \* /hab/sup/default/config/svc.toml
    pc,               \* position in svc_loads_from_paths
    default_svc_load, \* the local default_svc_load
    svc_loads,        \* the local svc_loads
    pi,               \* index of the path being walked
    ei,               \* index of the next item of that path's walk
    ret,              \* the value returned
    invoked,          \* the entries from_toml_file was called on, in order
    sources,          \* the Loads from_toml_file returned, in order
    defaultRead,      \* whether from_default_config_files was called
    walked,           \* the number of walk items taken
    base,             \* patch chain: the specification patched so far
    overlay,          \* patch chain: the overlay last applied
    prior,            \* patch chain: the base before the last patch
    npatch            \* patch chain: the number of patches applied

bulkVars ==
    <<paths, fs, content, defaultFile, pc, default_svc_load, svc_loads, pi, ei,
      ret, invoked, sources, defaultRead, walked>>
patchVars == <<base, overlay, prior, npatch>>
vars == <<bulkVars, patchVars>>

NoRet == [kind |-> "none", loads |-> <<>>, err |-> "none"]
RetOk(loads) == [kind |-> "ok", loads |-> loads, err |-> "none"]
RetErr(e) == [kind |-> "err", loads |-> <<>>, err |-> e]

\* push at the front
PushFront(loads, load) == <<load>> \o loads

\* svc_loads.push(svc_load)
Push(loads, load) == Append(loads, load)

\* the walk of the path at index i
WalkOf(i) == WalkDir(fs[paths[i]])
\* the item the inner loop is at
Item == WalkOf(pi)[ei]

\* the document from_toml_file(entry.path()) reads
DocOf(item) == IF item.slot \in DOMAIN content THEN content[item.slot] ELSE EmptyDoc
\* whether the entry can be opened and read as a file
Readable(item) == item.ftype = "file" /\ item.readable

\* IsTomlFile without the is_file() test
IsTomlName(item) ==
    /\ Extension(item.name).some
    /\ Extension(item.name).ext = N_toml

\* entry.file_type().is_file() and path.extension() == Some("toml")
IsTomlFile(item) ==
    /\ item.ftype = "file"
    /\ Extension(item.name).some
    /\ Extension(item.name).ext = N_toml

PathSeqs == UNION {[1..n -> PathNames] : n \in 1..MaxPaths}

\* the document slots some listed path holds a file of
SlotsUnder(ps, fs_) ==
    UNION {{WalkDir(fs_[ps[i]])[j].slot : j \in 1..Len(WalkDir(fs_[ps[i]]))} :
              i \in 1..Len(ps)} \ {"none"}

NoSpec == [f \in Fields |-> Unset]

\* the locals and the return value on entry to svc_loads_from_paths
AtEntry ==
    /\ pc = "start"
    /\ default_svc_load = NoLoad
    /\ svc_loads = <<>>
    /\ pi = 1
    /\ ei = 1
    /\ ret = NoRet
    /\ invoked = <<>>
    /\ sources = <<>>
    /\ defaultRead = FALSE
    /\ walked = 0

\* the keys the documents of one run vary besides pkg_ident: one field of
\* each kind (u64 with a default function, bool, Vec, Option) and the two
\* unknown keys
VariedKeys ==
    {"health_check_interval", "force", "bind", "shutdown_timeout"} \cup UnknownKeys

Listed(ps, p) == \E i \in 1..Len(ps) : ps[i] = p

Init ==
    /\ paths \in PathSeqs
    /\ \E d \in DefaultRoots, o \in OtherRoots :
          \* a path that is not listed is never looked at
          /\ ~Listed(paths, DEFAULT_SVC_CONFIG_PATH) => d.kind = "missing"
          /\ ~Listed(paths, OTHER_SVC_CONFIG_PATH) => o.kind = "missing"
          /\ fs = [p \in PathNames |-> IF p = DEFAULT_SVC_CONFIG_PATH THEN d ELSE o]
    /\ \E k \in VariedKeys :
          /\ \E a \in DocsFor(k, KeyValues["pkg_ident"][1]),
                b \in DocsFor(k, KeyValues["pkg_ident"][2]) :
                \* a file that no listed path holds is never read
                /\ "a" \notin SlotsUnder(paths, fs) => a = EmptyDoc
                /\ "b" \notin SlotsUnder(paths, fs) => b = EmptyDoc
                /\ content = [s \in {"a", "b"} |-> IF s = "a" THEN a ELSE b]
          /\ defaultFile \in
                {[exists |-> FALSE, doc |-> EmptyDoc]} \cup
                {[exists |-> TRUE, doc |-> d] :
                    d \in DocsFor(k, KeyValues["pkg_ident"][2])}
    /\ AtEntry
    /\ base = NoSpec
    /\ overlay = NoSpec
    /\ prior = NoSpec
    /\ npatch = 0

(***************************************************************************)
(* svc_loads_from_paths                                                     *)
(***************************************************************************)
\* OnlyDefaultAndAbsent with the negation of exists() lost
OnlyDefaultAndExists ==
    /\ Len(paths) = 1
    /\ paths[1] = DEFAULT_SVC_CONFIG_PATH
    /\ Exists(fs, paths[1])

\* OnlyDefaultAndAbsent without the comparison with the default location
OnlyPathAbsent ==
    /\ Len(paths) = 1
    /\ ~Exists(fs, paths[1])

\* the only path is the default location and the directory does not exist
OnlyDefaultAndAbsent ==
    /\ Len(paths) = 1
    /\ paths[1] = DEFAULT_SVC_CONFIG_PATH
    /\ ~Exists(fs, paths[1])

\* return Ok(Vec::new()) when the only path is the absent default location
ReturnEmpty ==
    /\ pc = "start"
    /\ OnlyDefaultAndAbsent
    /\ ret' = RetOk(<<>>)
    /\ pc' = "done"
    /\ UNCHANGED <<paths, fs, content, defaultFile, default_svc_load, svc_loads,
                   pi, ei, invoked, sources, defaultRead, walked, patchVars>>

\* let mut svc_loads = Vec::new()
Begin ==
    /\ pc = "start"
    /\ ~OnlyDefaultAndAbsent
    /\ svc_loads' = <<>>
    /\ pc' = "load_default"
    /\ UNCHANGED <<paths, fs, content, defaultFile, default_svc_load, pi, ei, ret,
                   invoked, sources, defaultRead, walked, patchVars>>

\* let default_svc_load = ConfigOptLoad::from_default_config_files()?
LoadDefault ==
    /\ pc = "load_default"
    /\ defaultRead' = TRUE
    /\ LET r == FromDefaultConfigFiles(defaultFile) IN
       IF r.ok
       THEN /\ default_svc_load' = r.val
            /\ pc' = "walk"
            /\ UNCHANGED ret
       ELSE /\ ret' = RetErr(r.err)
            /\ pc' = "done"
            /\ UNCHANGED default_svc_load
    /\ UNCHANGED <<paths, fs, content, defaultFile, svc_loads, pi, ei, invoked,
                   sources, walked, patchVars>>

AtItem == pc = "walk" /\ pi <= Len(paths) /\ ei <= Len(WalkOf(pi))

\* let entry = entry?  on an Err item of the walk
WalkFail ==
    /\ AtItem
    /\ Item.err
    /\ walked' = walked + 1
    /\ ret' = RetErr("FilesystemError")
    /\ pc' = "done"
    /\ UNCHANGED <<paths, fs, content, defaultFile, default_svc_load, svc_loads,
                   pi, ei, invoked, sources, defaultRead, patchVars>>

\* an entry that is no regular file with extension toml
SkipEntry ==
    /\ AtItem
    /\ ~Item.err
    /\ ~IsTomlFile(Item)
    /\ walked' = walked + 1
    /\ ei' = ei + 1
    /\ UNCHANGED <<paths, fs, content, defaultFile, pc, default_svc_load, svc_loads,
                   pi, ret, invoked, sources, defaultRead, patchVars>>

\* LoadEntry with a file that fails to load passed over instead of returned
LoadEntrySkipBad ==
    /\ AtItem
    /\ ~Item.err
    /\ IsTomlFile(Item)
    /\ walked' = walked + 1
    /\ invoked' = Append(invoked, Item)
    /\ \E r \in FromTomlFile(Readable(Item), DocOf(Item)) :
          IF r.ok
          THEN /\ svc_loads' = Push(svc_loads, PatchFor(default_svc_load, r.val))
               /\ sources' = Append(sources, r.val)
          ELSE UNCHANGED <<svc_loads, sources>>
    /\ ei' = ei + 1
    /\ UNCHANGED <<paths, fs, content, defaultFile, pc, default_svc_load, pi, ret,
                   defaultRead, patchVars>>

\* load the file, patch it with the default, push it; or return its error
LoadEntry ==
    /\ AtItem
    /\ ~Item.err
    /\ IsTomlFile(Item)
    /\ walked' = walked + 1
    /\ invoked' = Append(invoked, Item)
    /\ \E r \in FromTomlFile(Readable(Item), DocOf(Item)) :
          IF r.ok
          THEN /\ svc_loads' = Push(svc_loads, PatchFor(default_svc_load, r.val))
               /\ sources' = Append(sources, r.val)
               /\ ei' = ei + 1
               /\ UNCHANGED <<pc, ret>>
          ELSE /\ ret' = RetErr(r.err)
               /\ pc' = "done"
               /\ UNCHANGED <<svc_loads, sources, ei>>
    /\ UNCHANGED <<paths, fs, content, defaultFile, default_svc_load, pi,
                   defaultRead, patchVars>>

\* for path in paths: the walk of one path is over, on to the next
NextPath ==
    /\ pc = "walk"
    /\ pi <= Len(paths)
    /\ ei > Len(WalkOf(pi))
    /\ pi' = pi + 1
    /\ ei' = 1
    /\ UNCHANGED <<paths, fs, content, defaultFile, pc, default_svc_load, svc_loads,
                   ret, invoked, sources, defaultRead, walked, patchVars>>

\* Ok(svc_loads)
ReturnLoads ==
    /\ pc = "walk"
    /\ pi > Len(paths)
    /\ ret' = RetOk(svc_loads)
    /\ pc' = "done"
    /\ UNCHANGED <<paths, fs, content, defaultFile, default_svc_load, svc_loads,
                   pi, ei, invoked, sources, defaultRead, walked, patchVars>>

Next ==
    \/ ReturnEmpty
    \/ Begin
    \/ LoadDefault
    \/ WalkFail
    \/ SkipEntry
    \/ LoadEntry
    \/ NextPath
    \/ ReturnLoads

Spec == Init /\ [][Next]_vars


(***************************************************************************)
(* Chains of patches on one base specification                              *)
(***************************************************************************)
\* the fields the specifications of a chain vary
PatchedFields == {"pkg_ident"} \cup (VariedKeys \cap Fields)

\* what one field of a load specification may be
FieldStates(f) ==
    {Unset, Defaulted(KeyValues[f][1]), Defaulted(KeyValues[f][2]),
     Explicit(KeyValues[f][1]), Explicit(KeyValues[f][2])}

\* new_with_defaults(): every field Defaulted with its built-in value, or
\* unset where there is none
NewWithDefaults ==
    [f \in Fields |-> IF BuiltIn[f] = Absent THEN Unset ELSE Defaulted(BuiltIn[f])]

\* the specifications that differ from new_with_defaults() in one field
TaggedSpecs ==
    UNION {{[NewWithDefaults EXCEPT ![f] = t] : t \in FieldStates(f)} :
              f \in PatchedFields}

InitPatch ==
    /\ paths = <<DEFAULT_SVC_CONFIG_PATH>>
    /\ fs = [p \in PathNames |->
                IF p = DEFAULT_SVC_CONFIG_PATH THEN Missing(N_svc)
                                               ELSE Missing(N_svc_toml)]
    /\ content = [s \in {"a", "b"} |-> EmptyDoc]
    /\ defaultFile = [exists |-> FALSE, doc |-> EmptyDoc]
    /\ AtEntry
    /\ base \in TaggedSpecs
    /\ overlay = NoSpec
    /\ prior = NoSpec
    /\ npatch = 0

\* base = patch(base, o) for some overlay o
ApplyPatch ==
    /\ npatch < MaxPatches
    /\ \E o \in TaggedSpecs :
          /\ overlay' = o
          /\ prior' = base
          /\ base' = Patch(base, o)
    /\ npatch' = npatch + 1
    /\ UNCHANGED bulkVars

NextPatch == ApplyPatch

SpecPatch == InitPatch /\ [][NextPatch]_vars


C2_ExplicitStays ==
    [][\A f \in Fields : base[f].tag = "Explicit" => base'[f] = base[f]]_vars

\* a second patch whose overlay is Explicit, with another value, in a field
\* that is Explicit in the base, and the base kept its own
C2_Witness ==
    /\ npatch >= 2
    /\ \E f \in Fields :
          /\ prior[f].tag = "Explicit"
          /\ overlay[f].tag = "Explicit"
          /\ overlay[f].val # prior[f].val
          /\ base[f] = prior[f]


(***************************************************************************)
(* Properties of svc_loads_from_paths                                       *)
(***************************************************************************)
RECURSIVE ItemsFrom(_)
\* the items of the walks of paths[i], paths[i+1], ..., one after another
ItemsFrom(i) == IF i > Len(paths) THEN <<>> ELSE WalkOf(i) \o ItemsFrom(i + 1)
AllItems == ItemsFrom(1)

\* the input is the default directory alone, and it does not exist
DefaultRootAbsent ==
    /\ Len(paths) = 1
    /\ paths[1] = DEFAULT_SVC_CONFIG_PATH
    /\ fs[DEFAULT_SVC_CONFIG_PATH].kind = "missing"

\* the errors taking this item can end with (none: the item is passed)
ItemErrors(item) ==
    IF item.err THEN {"FilesystemError"}
    ELSE IF IsTomlFile(item)
         THEN {r.err : r \in {x \in FromTomlFile(Readable(item), DocOf(item)) : ~x.ok}}
         ELSE {}

\* the index in `items` of the first item that fails, 0 if none does
FirstFail(items) ==
    LET bad == {i \in 1..Len(items) : ItemErrors(items[i]) # {}}
    IN  IF bad = {} THEN 0 ELSE CHOOSE i \in bad : \A j \in bad : i <= j

TomlItems(items) == SelectSeq(items, IsTomlFile)

\* C3: with the default directory as the only path, and absent, the result
\* is an empty sequence and no error; the default config file is not loaded,
\* nothing is walked and no file is loaded
C3_DefaultRootTolerated ==
    DefaultRootAbsent =>
        /\ ~defaultRead
        /\ walked = 0
        /\ invoked = <<>>
        /\ ret.kind # "err"
        /\ pc = "done" => ret = RetOk(<<>>)

\* the call returned in that case although the default config file is
\* malformed
C3_Witness ==
    /\ pc = "done"
    /\ DefaultRootAbsent
    /\ defaultFile.exists
    /\ ~defaultFile.doc.wellformed
    /\ ret = RetOk(<<>>)

\* C4: the first failure (of the default config, of a walk step, of the load
\* of a discovered file) ends the call there with that error and with none of
\* the Loads resolved so far; Loads are returned only when nothing failed
C4_AllOrNothing ==
    (pc = "done" /\ ~DefaultRootAbsent) =>
        LET d == FromDefaultConfigFiles(defaultFile)
            items == AllItems
            k == FirstFail(items)
        IN  IF ~d.ok
            THEN ret = RetErr(d.err) /\ walked = 0 /\ invoked = <<>>
            ELSE IF k # 0
            THEN /\ ret.kind = "err"
                 /\ ret.loads = <<>>
                 /\ ret.err \in ItemErrors(items[k])
                 /\ walked = k
                 /\ invoked = TomlItems(SubSeq(items, 1, k))
            ELSE /\ ret = RetOk(svc_loads)
                 /\ walked = Len(items)
                 /\ Len(svc_loads) = Len(TomlItems(items))

\* a call that failed after it had resolved a Load, and returned none
C4_Witness ==
    /\ pc = "done"
    /\ ret.kind = "err"
    /\ Len(svc_loads) >= 1
    /\ ret.loads = <<>>

\* C5: on success there is one Load per discovered config file, in the order
\* of the walk: paths in the order given, files in the order the walk of each
\* path yields them; the i-th Load is the resolution of the i-th file
C5_TraversalOrder ==
    (pc = "done" /\ ret.kind = "ok" /\ ~DefaultRootAbsent) =>
        LET found == TomlItems(AllItems) IN
        /\ Len(ret.loads) = Len(found)
        /\ \A i \in 1..Len(found) :
              ret.loads[i] =
                  PatchFor(default_svc_load, DeserializeLoad(DocOf(found[i])))

\* a successful call over two paths with three files or more, the first two
\* resolved to different Loads
C5_Witness ==
    /\ pc = "done"
    /\ ret.kind = "ok"
    /\ Len(paths) = 2
    /\ paths[1] # paths[2]
    /\ Len(ret.loads) >= 3
    /\ ret.loads[1] # ret.loads[2]

\* the document of a file the loader was called on has a key outside the
\* recognized field set
HasUnknownKey(item) ==
    /\ Readable(item)
    /\ DocOf(item).wellformed
    /\ DocKeys(DocOf(item)) \cap UnknownKeys # {}

C7_Precedence ==
    \A i \in 1..Len(svc_loads) : \A f \in Fields :
        LET doc == DocOf(invoked[i]) IN
        svc_loads[i][f] =
            IF doc.kv[f] # Absent THEN doc.kv[f]
            ELSE IF defaultFile.exists /\ defaultFile.doc.kv[f] # Absent
                 THEN defaultFile.doc.kv[f]
                 ELSE BuiltIn[f]

\* the files regular and named *.toml under a node, by recursion on the tree
HasTomlSuffix(name) ==
    /\ Len(name) > 5
    /\ SubSeq(name, Len(name) - 4, Len(name)) = <<".", "t", "o", "m", "l">>

RECURSIVE TomlFilesIn(_, _)
RECURSIVE TomlFilesAmong(_, _, _)
TomlFilesIn(n, dir) ==
    IF n.kind = "file" /\ HasTomlSuffix(n.name) THEN <<Append(dir, n.name)>>
    ELSE IF n.kind = "dir" THEN TomlFilesAmong(n.children, Append(dir, n.name), 1)
    ELSE <<>>
TomlFilesAmong(cs, p, i) ==
    IF i > Len(cs) THEN <<>> ELSE TomlFilesIn(cs[i], p) \o TomlFilesAmong(cs, p, i + 1)

RECURSIVE TomlFilesFrom(_)
TomlFilesFrom(i) ==
    IF i > Len(paths) THEN <<>>
    ELSE TomlFilesIn(fs[paths[i]], <<>>) \o TomlFilesFrom(i + 1)

\* C8: outside the default-root-absent case the loader is called on exactly
\* the regular files with extension toml under the given paths, at any depth
\* and also when a path is such a file; every other entry is passed without
\* an error and gives no Load
C8_LoaderOnTomlFiles ==
    LET expected == TomlFilesFrom(1) IN
    /\ invoked # <<>> =>
          /\ Len(invoked) <= Len(expected)
          /\ \A i \in 1..Len(invoked) :
                /\ invoked[i].path = expected[i]
                /\ invoked[i].ftype = "file"
    /\ (pc = "done" /\ ret.kind = "ok" /\ ~DefaultRootAbsent)
          => (Len(invoked) = Len(expected) /\ Len(ret.loads) = Len(expected))
    /\ (pc = "done" /\ ret.kind = "err" /\ FromDefaultConfigFiles(defaultFile).ok)
          => (Item.err \/ (invoked # <<>> /\ invoked[Len(invoked)] = Item))

\* a successful call that passed entries that are no config files and loaded
\* a file two directories down
C8_Witness ==
    /\ pc = "done"
    /\ ret.kind = "ok"
    /\ walked >= Len(invoked) + 3
    /\ \E i \in 1..Len(invoked) : Len(invoked[i].path) >= 3

\* some listed path is absent, outside the default-root-absent case
SomePathAbsent ==
    /\ \E i \in 1..Len(paths) : fs[paths[i]].kind = "missing"
    /\ ~DefaultRootAbsent

C10_MissingAfterPatch ==
    \A i \in 1..Len(invoked) :
        LET doc == DocOf(invoked[i])
            dflt == IF defaultFile.exists THEN defaultFile.doc.kv["pkg_ident"]
                                          ELSE Absent
        IN  (Readable(invoked[i]) /\ doc.wellformed /\ DocKeys(doc) \cap UnknownKeys = {})
            => IF doc.kv["pkg_ident"] = Absent /\ dflt = Absent
               THEN i = Len(invoked) /\ ret = RetErr("MissingRequiredField")
               ELSE /\ Len(svc_loads) >= i
                    /\ svc_loads[i]["pkg_ident"] =
                          (IF doc.kv["pkg_ident"] # Absent THEN doc.kv["pkg_ident"]
                                                          ELSE dflt)

====
